---- MODULE Spec2Model ----
(***************************************************************************)
(* Room booking API: the booking conflict-resolution core.                 *)
(*                                                                         *)
(* State: the bookings table, the primary-key sequence and the current     *)
(* date.  Operations: the BookingViewSet handlers (create, update,         *)
(* partial update, destroy) with BookingSerializer.validate in front of    *)
(* Booking.save/clean, and Room.is_available.                              *)
(*                                                                         *)
(* Spec      one client, one request at a time: every handler is one       *)
(*           action; the request, its response and the table as it was     *)
(*           before the request stay visible until the response is         *)
(*           returned.                                                     *)
(* SpecRooms the rooms endpoint (create, update, partial update, destroy,  *)
(*           list, retrieve) one request at a time, with bookings made in  *)
(*           the stored rooms.                                             *)
(* SpecConc  request-parallel workers: a handler is split at its storage   *)
(*           accesses (get_object, each query of the serializer's          *)
(*           validation, each query of Booking.clean inside the            *)
(*           transaction, the write statement, the commit).                *)
(*           transaction.atomic() under the default READ COMMITTED         *)
(*           isolation takes no lock on rows that do not exist yet, and    *)
(*           the table has no exclusion constraint, so the reads of one    *)
(*           worker and the commit of another interleave freely; midnight  *)
(*           may pass at any point of a request.                           *)
(***************************************************************************)
EXTENDS Integers, FiniteSets, TLC

\* ------------------------------------------------------------- bounds ----
MaxTime == 2      \* times of day are 0..MaxTime
MaxDay == 1       \* calendar dates are 0..MaxDay
MaxId == 2        \* primary keys handed out by the bookings sequence
MaxRoomId == 3    \* primary keys handed out by the rooms sequence
MaxCapacity == 2  \* room capacities are 1..MaxCapacity (0 is sent, and refused)
MaxFloor == 2     \* room floors are 1..MaxFloor (0 is sent, and refused)

\* ------------------------------------------------------------ domains ----
Users == {1, 2}                 \* user primary keys
Staff == {2}                    \* users with is_staff
Rooms == {1, 2}                 \* room primary keys
Times == 0..MaxTime
Dates == 0..MaxDay
Ids == 1..MaxId
Fields == {"room", "date", "start_time", "end_time"}

\* Deserialized request data: a dict holding a subset of the writable fields.
FieldValues(f) ==
  IF f = "room" THEN Rooms ELSE IF f = "date" THEN Dates ELSE Times

AllData ==
  UNION {{d \in [S -> 0..(MaxTime + MaxDay + 2)] :
            \A f \in S : d[f] \in FieldValues(f)} : S \in SUBSET Fields}

FullData == {d \in AllData : DOMAIN d = Fields}

\* A payload that also names a user: `user` is a read-only field of
\* BookingSerializer, which a client may send all the same.
WithUser(d, u) ==
  [f \in DOMAIN d \cup {"user"} |-> IF f = "user" THEN u ELSE d[f]]

\* Payloads sent: POST and PUT carry every writable field, with or without a
\* user; PATCH carries any subset of the writable fields.
CreatePayloads == FullData \cup {WithUser(d, u) : d \in FullData, u \in Users}
UpdatePayloads == AllData \cup {WithUser(d, u) : d \in FullData, u \in Users}

\* Slip: `user` left writable, so a payload's user reaches validated_data.
to_internal_value_keeps_user(data) == data

\* Serializer.to_internal_value: read-only fields of the payload are dropped,
\* the writable fields supplied are kept.
to_internal_value(data) ==
  [f \in DOMAIN data \cap Fields |-> data[f]]

\* An unsaved model instance has pk None, modelled as id 0.
NoInstance ==
  [id |-> 0, user |-> 0, room |-> 0, date |-> 0, start_time |-> 0, end_time |-> 0]

\* Validation errors: the key of the error dict and which message it carries.
NoError == [key |-> "", msg |-> ""]
PastDate == [key |-> "date", msg |-> "Booking date cannot be in the past."]
InvalidInterval == [key |-> "end_time", msg |-> "End time must be after start time."]
RoomConflict ==
  [key |-> "non_field_errors",
   msg |-> "This room is already booked during the requested time slot."]
UserConflict ==
  [key |-> "non_field_errors",
   msg |-> "You already have another booking during this time slot."]

VARIABLES
  bookings,   \* the bookings table: a set of rows
  nextId,     \* next primary key of the bookings sequence
  today,      \* timezone.now().date()
  request,    \* Spec: the request being answered (op "none" when idle)
  response,   \* Spec: its response
  pre,        \* Spec: the bookings table before the request
  worker,     \* SpecConc: per worker, the request in flight and its position
  rooms,      \* the rooms table: a set of rows
  nextRoomId  \* next primary key of the rooms sequence

vars == <<bookings, nextId, today, request, response, pre, worker, rooms, nextRoomId>>

\* Slip: closed comparisons (__lte / __gte) in Room.is_available.
is_available_closed(room, date, start_time, end_time, bks) ==
  {b \in {x \in bks : x.room = room /\ x.date = date} :
     b.start_time <= end_time /\ b.end_time >= start_time} = {}

\* Slip: the date filter of Room.is_available left out.
is_available_any_date(room, date, start_time, end_time, bks) ==
  {b \in {x \in bks : x.room = room} :
     b.start_time < end_time /\ b.end_time > start_time} = {}

\* ------------------------------------------------- Room.is_available ----
\* Booking.objects.filter(room=self, date=date)
\*        .filter(Q(start_time__lt=end_time, end_time__gt=start_time))
is_available(room, date, start_time, end_time, bks) ==
  LET overlapping_bookings ==
        {b \in {x \in bks : x.room = room /\ x.date = date} :
           b.start_time < end_time /\ b.end_time > start_time}
  IN  overlapping_bookings = {}

\* ------------------------------------------------- BookingSerializer ----
\* Slip: the booking being updated not excluded from the serializer's room
\* query.
_is_room_available_no_exclude(room, date, start_time, end_time, instance, bks) ==
  {b \in bks : /\ b.room = room
               /\ b.date = date
               /\ b.start_time < end_time
               /\ b.end_time > start_time} = {}

\* Slip: closed comparisons (__lte / __gte) in the serializer's room query.
_is_room_available_closed(room, date, start_time, end_time, instance, bks) ==
  {b \in bks : /\ b.room = room
               /\ b.date = date
               /\ b.start_time <= end_time
               /\ b.end_time >= start_time
               /\ (instance.id # 0 => b.id # instance.id)} = {}

_is_room_available(room, date, start_time, end_time, instance, bks) ==
  LET overlapping_bookings ==
        {b \in bks : /\ b.room = room
                     /\ b.date = date
                     /\ b.start_time < end_time
                     /\ b.end_time > start_time}
      excluded ==
        IF instance.id # 0
        THEN {b \in overlapping_bookings : b.id # instance.id}
        ELSE overlapping_bookings
  IN  excluded = {}

\* Slip: end_time__gt compared with the requested end instead of the start.
_is_user_available_end_vs_end(user, date, start_time, end_time, instance, bks) ==
  {b \in bks : /\ b.user = user
               /\ b.date = date
               /\ b.start_time < end_time
               /\ b.end_time > end_time
               /\ (instance.id # 0 => b.id # instance.id)} = {}

_is_user_available(user, date, start_time, end_time, instance, bks) ==
  LET overlapping_bookings ==
        {b \in bks : /\ b.user = user
                     /\ b.date = date
                     /\ b.start_time < end_time
                     /\ b.end_time > start_time}
      excluded ==
        IF instance.id # 0
        THEN {b \in overlapping_bookings : b.id # instance.id}
        ELSE overlapping_bookings
  IN  excluded = {}

\* Slip: the user check of BookingSerializer.validate made before the room
\* check.
validate_user_first(data, instance, user, bks, now) ==
  IF "date" \in DOMAIN data /\ data["date"] < now
  THEN PastDate
  ELSE IF /\ "start_time" \in DOMAIN data
          /\ "end_time" \in DOMAIN data
          /\ data["end_time"] <= data["start_time"]
  THEN InvalidInterval
  ELSE IF Fields \subseteq DOMAIN data
  THEN IF ~_is_user_available(user, data["date"], data["start_time"],
                              data["end_time"], instance, bks)
       THEN UserConflict
       ELSE IF ~_is_room_available(data["room"], data["date"],
                                   data["start_time"], data["end_time"],
                                   instance, bks)
       THEN RoomConflict
       ELSE NoError
  ELSE NoError

\* BookingSerializer.validate(data): data.get(f) is truthy exactly when f was
\* supplied (dates, times and Room objects are never falsy).  `user` is the
\* request's user, `instance` the booking being updated (NoInstance on create).
validate(data, instance, user, bks, now) ==
  IF "date" \in DOMAIN data /\ data["date"] < now
  THEN PastDate
  ELSE IF /\ "start_time" \in DOMAIN data
          /\ "end_time" \in DOMAIN data
          /\ data["end_time"] <= data["start_time"]
  THEN InvalidInterval
  ELSE IF Fields \subseteq DOMAIN data
  THEN IF ~_is_room_available(data["room"], data["date"], data["start_time"],
                              data["end_time"], instance, bks)
       THEN RoomConflict
       ELSE IF ~_is_user_available(user, data["date"], data["start_time"],
                                   data["end_time"], instance, bks)
       THEN UserConflict
       ELSE NoError
  ELSE NoError

\* ----------------------------------------------------- Booking (model) ----
\* Slip: the room check skipped for a booking that is already stored.
_validate_room_availability_skip_saved(self, bks) ==
  IF self.id # 0 THEN NoError
  ELSE IF {b \in bks : /\ b.room = self.room
                       /\ b.date = self.date
                       /\ b.start_time < self.end_time
                       /\ b.end_time > self.start_time} # {}
  THEN RoomConflict ELSE NoError

_validate_room_availability(self, bks) ==
  LET overlapping_bookings ==
        IF self.id # 0
        THEN {b \in bks : /\ b.room = self.room
                          /\ b.date = self.date
                          /\ b.start_time < self.end_time
                          /\ b.end_time > self.start_time
                          /\ b.id # self.id}
        ELSE {b \in bks : /\ b.room = self.room
                          /\ b.date = self.date
                          /\ b.start_time < self.end_time
                          /\ b.end_time > self.start_time}
  IN  IF overlapping_bookings # {} THEN RoomConflict ELSE NoError

\* Slip: start_time__lte in place of start_time__lt in the model's user query.
_validate_user_availability_start_lte(self, bks) ==
  IF {b \in bks : /\ b.user = self.user
                  /\ b.date = self.date
                  /\ b.start_time <= self.end_time
                  /\ b.end_time > self.start_time
                  /\ (self.id # 0 => b.id # self.id)} # {}
  THEN UserConflict ELSE NoError

\* Slip: the user check skipped for a booking that is already stored.
_validate_user_availability_skip_saved(self, bks) ==
  IF self.id # 0 THEN NoError
  ELSE IF {b \in bks : /\ b.user = self.user
                       /\ b.date = self.date
                       /\ b.start_time < self.end_time
                       /\ b.end_time > self.start_time} # {}
  THEN UserConflict ELSE NoError

_validate_user_availability(self, bks) ==
  LET overlapping_bookings ==
        IF self.id # 0
        THEN {b \in bks : /\ b.user = self.user
                          /\ b.date = self.date
                          /\ b.start_time < self.end_time
                          /\ b.end_time > self.start_time
                          /\ b.id # self.id}
        ELSE {b \in bks : /\ b.user = self.user
                          /\ b.date = self.date
                          /\ b.start_time < self.end_time
                          /\ b.end_time > self.start_time}
  IN  IF overlapping_bookings # {} THEN UserConflict ELSE NoError

\* Slip: the past-date rule left out of Booking.clean.
clean_no_date_check(self, bks, now) ==
  IF self.end_time <= self.start_time THEN InvalidInterval
  ELSE IF _validate_room_availability(self, bks) # NoError
  THEN _validate_room_availability(self, bks)
  ELSE _validate_user_availability(self, bks)

\* Slip: end_time < start_time in place of <=, letting an empty interval by.
clean_allows_empty_interval(self, bks, now) ==
  IF self.date < now THEN PastDate
  ELSE IF self.end_time < self.start_time THEN InvalidInterval
  ELSE IF _validate_room_availability(self, bks) # NoError
  THEN _validate_room_availability(self, bks)
  ELSE _validate_user_availability(self, bks)

\* Booking.clean(): the first rule violated, NoError when none is.
clean(self, bks, now) ==
  IF self.date < now THEN PastDate
  ELSE IF self.end_time <= self.start_time THEN InvalidInterval
  ELSE IF _validate_room_availability(self, bks) # NoError
  THEN _validate_room_availability(self, bks)
  ELSE _validate_user_availability(self, bks)

\* super().save(): INSERT when the instance has no pk (the sequence gives it
\* one); otherwise UPDATE of every column of the row with that pk, and an
\* INSERT of the row when the UPDATE matched nothing.
save(self, bks, pk) ==
  IF self.id = 0
  THEN bks \cup {[self EXCEPT !.id = pk]}
  ELSE {b \in bks : b.id # self.id} \cup {self}

\* BookingSerializer.create: the instance built from validated_data, its user
\* set to the request's user.
create(validated_data, user) ==
  [id |-> 0, user |-> user, room |-> validated_data["room"],
   date |-> validated_data["date"],
   start_time |-> validated_data["start_time"],
   end_time |-> validated_data["end_time"]]

\* BookingSerializer.update: setattr(instance, attr, value) for each item.
update(instance, validated_data) ==
  [id |-> instance.id,
   user |-> IF "user" \in DOMAIN validated_data
            THEN validated_data["user"] ELSE instance.user,
   room |-> IF "room" \in DOMAIN validated_data
            THEN validated_data["room"] ELSE instance.room,
   date |-> IF "date" \in DOMAIN validated_data
            THEN validated_data["date"] ELSE instance.date,
   start_time |-> IF "start_time" \in DOMAIN validated_data
                  THEN validated_data["start_time"] ELSE instance.start_time,
   end_time |-> IF "end_time" \in DOMAIN validated_data
                THEN validated_data["end_time"] ELSE instance.end_time]

\* Slip: the queryset not narrowed to the requester's bookings.
get_queryset_unfiltered(user, bks) == bks

\* BookingViewSet.get_queryset: every booking for staff, own bookings otherwise.
get_queryset(user, bks) ==
  IF user \in Staff THEN bks ELSE {b \in bks : b.user = user}

\* IsOwnerOrAdmin.has_object_permission
has_object_permission(user, obj) ==
  user \in Staff \/ obj.user = user

\* Slip: the object looked up in Booking.objects.all(), not in get_queryset().
get_object_unscoped(user, pk, bks) ==
  IF {b \in bks : b.id = pk} = {} THEN NoInstance
  ELSE CHOOSE b \in bks : b.id = pk

\* get_object(): the row of the queryset with this pk, NoInstance (HTTP 404)
\* when there is none; then the object permission.
get_object(user, pk, bks) ==
  LET found == {b \in get_queryset(user, bks) : b.id = pk}
  IN  IF found = {} THEN NoInstance ELSE CHOOSE b \in found : TRUE

\* ------------------------------------------------ requests, responses ----
EmptyData == [f \in {} |-> 0]

NoRequest ==
  [op |-> "none", user |-> 0, pk |-> 0, partial |-> FALSE, data |-> EmptyData]

NoResponse ==
  [status |-> "", error |-> NoError, errors |-> {}, id |-> 0, value |-> FALSE,
   rows |-> {}]

\* A response: the HTTP status, the validation error it reports (a 400 carries
\* the serializer's error dict; a 500 is the model's ValidationError escaping
\* the view unhandled), the id of the booking in the body (0 when there is
\* none), for Room.is_available the boolean returned and, for a listing, the
\* rows returned.  A 400 of the rooms endpoint carries in `errors` the keys of
\* its error dict.
Response(status, error, id) ==
  [status |-> status, error |-> error, errors |-> {}, id |-> id,
   value |-> FALSE, rows |-> {}]

Answer(req, resp) ==
  /\ request' = req
  /\ response' = resp
  /\ pre' = bookings

Idle == request.op = "none"

\* ------------------------------------------- Spec: one request at a time ----
\* timezone.now().date() as read again later in the same request: the date of
\* the first reading, or the next date when midnight passed in between.
LaterDates(now) == {d \in Dates : d = now \/ d = now + 1}

\* POST /bookings/: BookingViewSet.create -> serializer.is_valid ->
\* perform_create -> BookingSerializer.create -> Booking.objects.create ->
\* Booking.save (clean, then INSERT).  The serializer reads the clock as
\* `today`; Booking.clean reads it again, as `today'`.
BookingCreate(user, data) ==
  /\ Idle
  /\ \E later \in LaterDates(today) :
       LET req == [op |-> "create", user |-> user, pk |-> 0,
                   partial |-> FALSE, data |-> data]
           validated_data == to_internal_value(data)
           err == validate(validated_data, NoInstance, user, bookings, today)
           booking == create(validated_data, user)
           cerr == clean(booking, bookings, later)
       IN  IF err # NoError
           THEN /\ later = today
                /\ Answer(req, Response("400", err, 0))
                /\ UNCHANGED <<bookings, nextId, today>>
           ELSE IF cerr # NoError
           THEN /\ Answer(req, Response("500", cerr, 0))
                /\ today' = later
                /\ UNCHANGED <<bookings, nextId>>
           ELSE /\ nextId <= MaxId
                /\ bookings' = save(booking, bookings, nextId)
                /\ nextId' = nextId + 1
                /\ today' = later
                /\ Answer(req, Response("201", NoError, nextId))
  /\ UNCHANGED <<worker, rooms, nextRoomId>>

\* Slip: the row written before Booking.clean runs, and not rolled back when
\* clean raises.
BookingUpdate_writes_before_clean(user, pk, partial, data) ==
  /\ Idle
  /\ partial \/ Fields \subseteq DOMAIN data
  /\ \E later \in LaterDates(today) :
       LET req == [op |-> "update", user |-> user, pk |-> pk,
                   partial |-> partial, data |-> data]
           instance == get_object(user, pk, bookings)
           validated_data == to_internal_value(data)
           err == validate(validated_data, instance, user, bookings, today)
           updated == update(instance, validated_data)
           cerr == clean(updated, bookings, later)
       IN  IF instance = NoInstance
           THEN /\ later = today
                /\ Answer(req, Response("404", NoError, 0))
                /\ UNCHANGED <<bookings, today>>
           ELSE IF ~has_object_permission(user, instance)
           THEN /\ later = today
                /\ Answer(req, Response("403", NoError, 0))
                /\ UNCHANGED <<bookings, today>>
           ELSE IF err # NoError
           THEN /\ later = today
                /\ Answer(req, Response("400", err, 0))
                /\ UNCHANGED <<bookings, today>>
           ELSE /\ bookings' = save(updated, bookings, nextId)
                /\ today' = later
                /\ Answer(req, IF cerr # NoError THEN Response("500", cerr, 0)
                                ELSE Response("200", NoError, pk))
  /\ UNCHANGED <<nextId, worker, rooms, nextRoomId>>

\* PUT/PATCH /bookings/<pk>/: BookingViewSet.update -> get_object ->
\* serializer.is_valid -> perform_update -> BookingSerializer.update ->
\* instance.save (clean, then UPDATE).  A PUT carries every field.  The
\* serializer reads the clock as `today`; Booking.clean reads it again, as
\* `today'`.
BookingUpdate(user, pk, partial, data) ==
  /\ Idle
  /\ partial \/ Fields \subseteq DOMAIN data
  /\ \E later \in LaterDates(today) :
       LET req == [op |-> "update", user |-> user, pk |-> pk,
                   partial |-> partial, data |-> data]
           instance == get_object(user, pk, bookings)
           validated_data == to_internal_value(data)
           err == validate(validated_data, instance, user, bookings, today)
           updated == update(instance, validated_data)
           cerr == clean(updated, bookings, later)
       IN  IF instance = NoInstance
           THEN /\ later = today
                /\ Answer(req, Response("404", NoError, 0))
                /\ UNCHANGED <<bookings, today>>
           ELSE IF ~has_object_permission(user, instance)
           THEN /\ later = today
                /\ Answer(req, Response("403", NoError, 0))
                /\ UNCHANGED <<bookings, today>>
           ELSE IF err # NoError
           THEN /\ later = today
                /\ Answer(req, Response("400", err, 0))
                /\ UNCHANGED <<bookings, today>>
           ELSE IF cerr # NoError
           THEN /\ Answer(req, Response("500", cerr, 0))
                /\ today' = later
                /\ UNCHANGED bookings
           ELSE /\ bookings' = save(updated, bookings, nextId)
                /\ today' = later
                /\ Answer(req, Response("200", NoError, pk))
  /\ UNCHANGED <<nextId, worker, rooms, nextRoomId>>

\* Slip: the delete refused for a booking whose date is past.
BookingDestroy_validates(user, pk) ==
  /\ Idle
  /\ LET req == [op |-> "destroy", user |-> user, pk |-> pk,
                 partial |-> FALSE, data |-> EmptyData]
         instance == get_object(user, pk, bookings)
     IN  IF instance = NoInstance
         THEN /\ Answer(req, Response("404", NoError, 0))
              /\ UNCHANGED bookings
         ELSE IF instance.date < today
         THEN /\ Answer(req, Response("400", PastDate, 0))
              /\ UNCHANGED bookings
         ELSE /\ bookings' = {b \in bookings : b.id # instance.id}
              /\ Answer(req, Response("204", NoError, 0))
  /\ UNCHANGED <<nextId, today, worker, rooms, nextRoomId>>

\* DELETE /bookings/<pk>/: BookingViewSet.destroy -> get_object ->
\* perform_destroy -> instance.delete().
BookingDestroy(user, pk) ==
  /\ Idle
  /\ LET req == [op |-> "destroy", user |-> user, pk |-> pk,
                 partial |-> FALSE, data |-> EmptyData]
         instance == get_object(user, pk, bookings)
     IN  IF instance = NoInstance
         THEN /\ Answer(req, Response("404", NoError, 0))
              /\ UNCHANGED bookings
         ELSE IF ~has_object_permission(user, instance)
         THEN /\ Answer(req, Response("403", NoError, 0))
              /\ UNCHANGED bookings
         ELSE /\ bookings' = {b \in bookings : b.id # instance.id}
              /\ Answer(req, Response("204", NoError, 0))
  /\ UNCHANGED <<nextId, today, worker, rooms, nextRoomId>>

\* room.is_available(date, start_time, end_time) on a stored room; the
\* function does not check that start_time < end_time.
RoomIsAvailable(room, date, start_time, end_time) ==
  /\ Idle
  /\ Answer([op |-> "is_available", user |-> 0, pk |-> room, partial |-> FALSE,
             data |-> [date |-> date, start_time |-> start_time,
                       end_time |-> end_time]],
            [status |-> "", error |-> NoError, errors |-> {}, id |-> 0,
             value |-> is_available(room, date, start_time, end_time, bookings),
             rows |-> {}])
  /\ UNCHANGED <<bookings, nextId, today, worker, rooms, nextRoomId>>

\* ---------------------------------------------------------- rooms app ----
\* Room names are unique strings; two of them, numbered.
RoomNames == {1, 2}
RoomIds == 1..MaxRoomId
RoomFields == {"name", "capacity", "floor"}

RoomFieldValues(f) ==
  IF f = "name" THEN RoomNames
  ELSE IF f = "capacity" THEN 0..MaxCapacity ELSE 0..MaxFloor

\* Deserialized room payloads: a dict holding a subset of the writable fields.
AllRoomData ==
  UNION {{d \in [S -> 0..(MaxCapacity + MaxFloor + 3)] :
            \A f \in S : d[f] \in RoomFieldValues(f)} : S \in SUBSET RoomFields}

\* Query parameters of the room listing: any subset of date, start_time,
\* end_time, floor and capacity.
RoomParams == {"date", "start_time", "end_time", "floor", "capacity"}

RoomParamValues(f) ==
  IF f = "date" THEN Dates
  ELSE IF f \in {"start_time", "end_time"} THEN Times
  ELSE IF f = "floor" THEN 1..MaxFloor ELSE 1..MaxCapacity

AllRoomParams ==
  UNION {{q \in [S -> 0..(MaxTime + MaxDay + MaxCapacity + MaxFloor)] :
            \A f \in S : q[f] \in RoomParamValues(f)} : S \in SUBSET RoomParams}

\* The rooms the bookings refer to, as stored before any room request.
InitialRooms ==
  {[id |-> r, name |-> r, capacity |-> r, floor |-> r] : r \in Rooms}

NoRoom == [id |-> 0, name |-> 0, capacity |-> 0, floor |-> 0]

\* Slip: write permission given to every authenticated user.
has_permission_any_user(user, method) == TRUE

\* IsAdminUserOrReadOnly.has_permission (every modelled user is authenticated)
has_permission(user, method) ==
  IF method \in {"GET", "HEAD", "OPTIONS"} THEN TRUE ELSE user \in Staff

\* Field validation of RoomSerializer, run before validate(): a field that is
\* required and missing (not on a partial update), a name another room has
\* (UniqueValidator), a capacity or floor below 1 (MinValueValidator(1)).
room_field_errors(data, instance, partial, rms) ==
  {f \in RoomFields :
     \/ f \notin DOMAIN data /\ ~partial
     \/ /\ f \in DOMAIN data
        /\ IF f = "name"
           THEN \E r \in rms : r.name = data[f] /\ r.id # instance.id
           ELSE data[f] < 1}

\* RoomSerializer.validate(data): data.get('floor', 0) <= 0, then
\* data.get('capacity', 0) <= 0.
RoomSerializer_validate(data) ==
  IF (IF "floor" \in DOMAIN data THEN data["floor"] ELSE 0) <= 0
  THEN {"floor"}
  ELSE IF (IF "capacity" \in DOMAIN data THEN data["capacity"] ELSE 0) <= 0
  THEN {"capacity"}
  ELSE {}

\* serializer.is_valid(): the keys of the error dict, {} when valid.
room_is_valid(data, instance, partial, rms) ==
  IF room_field_errors(data, instance, partial, rms) # {}
  THEN room_field_errors(data, instance, partial, rms)
  ELSE RoomSerializer_validate(data)

\* Slip: name treated as read-only, so an update never stores it.
room_update_keeps_name(instance, validated_data) ==
  [id |-> instance.id,
   name |-> instance.name,
   capacity |-> IF "capacity" \in DOMAIN validated_data
                THEN validated_data["capacity"] ELSE instance.capacity,
   floor |-> IF "floor" \in DOMAIN validated_data
             THEN validated_data["floor"] ELSE instance.floor]

\* ModelSerializer.update on a room: setattr for each validated item.
room_update(instance, validated_data) ==
  [id |-> instance.id,
   name |-> IF "name" \in DOMAIN validated_data
            THEN validated_data["name"] ELSE instance.name,
   capacity |-> IF "capacity" \in DOMAIN validated_data
                THEN validated_data["capacity"] ELSE instance.capacity,
   floor |-> IF "floor" \in DOMAIN validated_data
             THEN validated_data["floor"] ELSE instance.floor]

\* Slip: capacity__gt in place of capacity__gte.
RoomViewSet_get_queryset_capacity_gt(params, rms, bks) ==
  LET by_floor ==
        IF "floor" \in DOMAIN params
        THEN {r \in rms : r.floor = params["floor"]} ELSE rms
      by_capacity ==
        IF "capacity" \in DOMAIN params
        THEN {r \in by_floor : r.capacity > params["capacity"]} ELSE by_floor
  IN  IF {"date", "start_time", "end_time"} \subseteq DOMAIN params
      THEN {r \in by_capacity :
              is_available(r.id, params["date"], params["start_time"],
                           params["end_time"], bks)}
      ELSE by_capacity

\* RoomViewSet.get_queryset: floor and capacity narrow the rooms; with date,
\* start_time and end_time all given, the rooms that are available remain.
RoomViewSet_get_queryset(params, rms, bks) ==
  LET by_floor ==
        IF "floor" \in DOMAIN params
        THEN {r \in rms : r.floor = params["floor"]} ELSE rms
      by_capacity ==
        IF "capacity" \in DOMAIN params
        THEN {r \in by_floor : r.capacity >= params["capacity"]} ELSE by_floor
  IN  IF {"date", "start_time", "end_time"} \subseteq DOMAIN params
      THEN {r \in by_capacity :
              is_available(r.id, params["date"], params["start_time"],
                           params["end_time"], bks)}
      ELSE by_capacity

\* RoomFilter applied to the queryset by DjangoFilterBackend: floor (exact),
\* capacity (gte), date through filter_availability; start_time and end_time
\* filter nothing by themselves.
RoomFilter(queryset, params, bks) ==
  LET by_floor ==
        IF "floor" \in DOMAIN params
        THEN {r \in queryset : r.floor = params["floor"]} ELSE queryset
      by_capacity ==
        IF "capacity" \in DOMAIN params
        THEN {r \in by_floor : r.capacity >= params["capacity"]} ELSE by_floor
  IN  IF {"date", "start_time", "end_time"} \subseteq DOMAIN params
      THEN {r \in by_capacity :
              is_available(r.id, params["date"], params["start_time"],
                           params["end_time"], bks)}
      ELSE by_capacity

\* Listing requests that ask for availability only: date, start_time and
\* end_time, no floor and no capacity.
AvailabilityParams ==
  {q \in AllRoomParams : DOMAIN q = {"date", "start_time", "end_time"}}

\* filter_queryset(get_queryset()) of the room listing.
room_list(params, rms, bks) ==
  RoomFilter(RoomViewSet_get_queryset(params, rms, bks), params, bks)

\* get_object() of the rooms endpoint (no query parameters).
room_get_object(pk, rms) ==
  LET found == {r \in rms : r.id = pk}
  IN  IF found = {} THEN NoRoom ELSE CHOOSE r \in found : TRUE

RoomResponse(status, errors, id, rows) ==
  [status |-> status, error |-> NoError, errors |-> errors, id |-> id,
   value |-> FALSE, rows |-> rows]

RoomRequest(op, user, pk, partial, data) ==
  [op |-> op, user |-> user, pk |-> pk, partial |-> partial, data |-> data]

\* POST /rooms/
RoomCreate(user, data) ==
  /\ Idle
  /\ LET req == RoomRequest("room_create", user, 0, FALSE, data)
         errs == room_is_valid(data, NoRoom, FALSE, rooms)
     IN  IF ~has_permission(user, "POST")
         THEN /\ Answer(req, RoomResponse("403", {}, 0, {}))
              /\ UNCHANGED <<rooms, nextRoomId>>
         ELSE IF errs # {}
         THEN /\ Answer(req, RoomResponse("400", errs, 0, {}))
              /\ UNCHANGED <<rooms, nextRoomId>>
         ELSE /\ nextRoomId <= MaxRoomId
              /\ rooms' = rooms \cup {room_update([NoRoom EXCEPT !.id = nextRoomId],
                                                  data)}
              /\ nextRoomId' = nextRoomId + 1
              /\ Answer(req, RoomResponse("201", {}, nextRoomId, {}))
  /\ UNCHANGED <<bookings, nextId, today, worker>>

\* PUT/PATCH /rooms/<pk>/
RoomUpdate(user, pk, partial, data) ==
  /\ Idle
  /\ LET req == RoomRequest("room_update", user, pk, partial, data)
         instance == room_get_object(pk, rooms)
         errs == room_is_valid(data, instance, partial, rooms)
     IN  IF ~has_permission(user, IF partial THEN "PATCH" ELSE "PUT")
         THEN /\ Answer(req, RoomResponse("403", {}, 0, {}))
              /\ UNCHANGED rooms
         ELSE IF instance = NoRoom
         THEN /\ Answer(req, RoomResponse("404", {}, 0, {}))
              /\ UNCHANGED rooms
         ELSE IF errs # {}
         THEN /\ Answer(req, RoomResponse("400", errs, 0, {}))
              /\ UNCHANGED rooms
         ELSE /\ rooms' = (rooms \ {instance}) \cup {room_update(instance, data)}
              /\ Answer(req, RoomResponse("200", {}, pk, {}))
  /\ UNCHANGED <<bookings, nextId, today, worker, nextRoomId>>

\* DELETE /rooms/<pk>/: the room's bookings go with it (on_delete=CASCADE).
RoomDestroy(user, pk) ==
  /\ Idle
  /\ LET req == RoomRequest("room_destroy", user, pk, FALSE, EmptyData)
         instance == room_get_object(pk, rooms)
     IN  IF ~has_permission(user, "DELETE")
         THEN /\ Answer(req, RoomResponse("403", {}, 0, {}))
              /\ UNCHANGED <<rooms, bookings>>
         ELSE IF instance = NoRoom
         THEN /\ Answer(req, RoomResponse("404", {}, 0, {}))
              /\ UNCHANGED <<rooms, bookings>>
         ELSE /\ rooms' = rooms \ {instance}
              /\ bookings' = {b \in bookings : b.room # pk}
              /\ Answer(req, RoomResponse("204", {}, 0, {}))
  /\ UNCHANGED <<nextId, today, worker, nextRoomId>>

\* Slip: the listing answered from the bookings as they were before the
\* previous request, not from the stored bookings.
RoomList_stale(user, params) ==
  /\ Idle
  /\ Answer(RoomRequest("room_list", user, 0, FALSE, params),
            RoomResponse("200", {}, 0, room_list(params, rooms, pre)))
  /\ UNCHANGED <<bookings, nextId, today, worker, rooms, nextRoomId>>

\* GET /rooms/?<params>
RoomList(user, params) ==
  /\ Idle
  /\ IF ~has_permission(user, "GET")
     THEN Answer(RoomRequest("room_list", user, 0, FALSE, params),
                 RoomResponse("403", {}, 0, {}))
     ELSE Answer(RoomRequest("room_list", user, 0, FALSE, params),
                 RoomResponse("200", {}, 0, room_list(params, rooms, bookings)))
  /\ UNCHANGED <<bookings, nextId, today, worker, rooms, nextRoomId>>

\* GET /rooms/<pk>/
RoomRetrieve(user, pk) ==
  /\ Idle
  /\ LET req == RoomRequest("room_retrieve", user, pk, FALSE, EmptyData)
         instance == room_get_object(pk, rooms)
     IN  IF ~has_permission(user, "GET")
         THEN Answer(req, RoomResponse("403", {}, 0, {}))
         ELSE IF instance = NoRoom
         THEN Answer(req, RoomResponse("404", {}, 0, {}))
         ELSE Answer(req, RoomResponse("200", {}, pk, {instance}))
  /\ UNCHANGED <<bookings, nextId, today, worker, rooms, nextRoomId>>

\* GET /bookings/: the rows of get_queryset.
BookingList(user) ==
  /\ Idle
  /\ Answer([op |-> "list", user |-> user, pk |-> 0, partial |-> FALSE,
             data |-> EmptyData],
            [status |-> "200", error |-> NoError, errors |-> {}, id |-> 0,
             value |-> FALSE, rows |-> get_queryset(user, bookings)])
  /\ UNCHANGED <<bookings, nextId, today, worker, rooms, nextRoomId>>

\* GET /bookings/<pk>/
BookingRetrieve(user, pk) ==
  /\ Idle
  /\ LET req == [op |-> "retrieve", user |-> user, pk |-> pk,
                 partial |-> FALSE, data |-> EmptyData]
         instance == get_object(user, pk, bookings)
     IN  IF instance = NoInstance
         THEN Answer(req, Response("404", NoError, 0))
         ELSE IF ~has_object_permission(user, instance)
         THEN Answer(req, Response("403", NoError, 0))
         ELSE Answer(req, [status |-> "200", error |-> NoError, errors |-> {},
                           id |-> pk, value |-> FALSE, rows |-> {instance}])
  /\ UNCHANGED <<bookings, nextId, today, worker, rooms, nextRoomId>>

\* The response reaches the client, which may then send its next request.
Return ==
  /\ ~Idle
  /\ request' = NoRequest
  /\ response' = NoResponse
  /\ pre' = {}
  /\ UNCHANGED <<bookings, nextId, today, worker, rooms, nextRoomId>>

\* Midnight: timezone.now().date() moves on while bookings stay stored.  In
\* Spec and SpecRooms a request that is not idle has been answered, and a
\* midnight during a request is part of the handler's action.  SpecConc
\* leaves `request` idle: there midnight falls at any point of the requests
\* in flight.
Tick ==
  /\ Idle
  /\ today < MaxDay
  /\ today' = today + 1
  /\ UNCHANGED <<bookings, nextId, request, response, pre, worker, rooms, nextRoomId>>

NoWorker ==
  [pc |-> "idle", op |-> "none", user |-> 0, pk |-> 0, partial |-> FALSE,
   data |-> EmptyData, instance |-> NoInstance, status |-> "",
   error |-> NoError]

Workers == {1, 2}

Init ==
  /\ bookings = {}
  /\ nextId = 1
  /\ today = 0
  /\ request = NoRequest
  /\ response = NoResponse
  /\ pre = {}
  /\ worker = [w \in Workers |-> NoWorker]
  /\ rooms = InitialRooms
  /\ nextRoomId = Cardinality(Rooms) + 1

Next ==
  \/ Idle /\ \E user \in Users, data \in CreatePayloads : BookingCreate(user, data)
  \/ Idle /\ \E user \in Users, pk \in Ids, partial \in BOOLEAN,
                 data \in UpdatePayloads :
               /\ "user" \in DOMAIN data => ~partial
               /\ BookingUpdate(user, pk, partial, data)
  \/ Idle /\ \E user \in Users, pk \in Ids : BookingDestroy(user, pk)
  \/ Idle /\ \E room \in Rooms, date \in Dates, start_time \in Times,
                 end_time \in Times :
               RoomIsAvailable(room, date, start_time, end_time)
  \/ Idle /\ \E user \in Users : BookingList(user)
  \/ Idle /\ \E user \in Users, pk \in Ids : BookingRetrieve(user, pk)
  \/ Idle /\ \E user \in Users, params \in AvailabilityParams :
               RoomList(user, params)
  \/ Tick
  \/ Return

Spec == Init /\ [][Next]_vars

\* ----------------------------------------------------------- typing ----
BookingRows ==
  [id : Ids, user : Users, room : Rooms, date : Dates,
   start_time : Times, end_time : Times]

TypeOK ==
  /\ bookings \subseteq BookingRows
  /\ nextId \in 1..(MaxId + 1)
  /\ today \in Dates
  /\ \A a, b \in bookings : a.id = b.id => a = b
  /\ \A b \in bookings : b.id < nextId
  /\ rooms \subseteq [id : RoomIds, name : RoomNames, capacity : 1..MaxCapacity,
                      floor : 1..MaxFloor]
  /\ nextRoomId \in 1..(MaxRoomId + 1)
  /\ \A a, b \in rooms : (a.id = b.id \/ a.name = b.name) => a = b
  /\ \A r \in rooms : r.id < nextRoomId

\* -------------------------------------- SpecConc: request-parallel workers ----
\* A handler is split at its accesses to what the workers share, in the order
\* the code makes them: get_object (update, destroy); the reading of the
\* clock, the room query and the user query of BookingSerializer.validate;
\* the reading of the clock, the room query and the user query of
\* Booking.clean; the INSERT/UPDATE statement; the commit of the atomic block.
\* `bookings` is the committed table; every query reads it as it is when the
\* query runs, and a statement of an open transaction is seen by the other
\* workers at its commit.  No statement waits for another worker: the
\* repository fixes no database backend, and a backend whose writers wait for
\* one another allows a part of these schedules.
\*
\* Requests given with every field supplied (a POST or a PUT), for the date
\* `now` and a well-formed interval.
ConcData(now) ==
  {d \in FullData : d["start_time"] < d["end_time"] /\ d["date"] = now}

\* POST requests the workers are given, before and after midnight: for the
\* first date and a slot of one time unit.
ConcPostData ==
  {d \in ConcData(0) : d["end_time"] = d["start_time"] + 1}

\* PUT requests the workers are given: the booking is to take the last slot
\* of one time unit in a room, on the first date.
ConcPutData ==
  {d \in ConcPostData : d["end_time"] = MaxTime}

\* PATCH requests the workers are given: the booking is to last until the
\* latest time.
ConcPatchData ==
  {d \in AllData : DOMAIN d = {"end_time"} /\ d["end_time"] = MaxTime}

InFlight(w) == worker[w].pc \notin {"idle", "done"}

\* Creates that may still draw a primary key from the sequence.
CreatesInFlight ==
  {w \in Workers : /\ worker[w].op = "create"
                   /\ worker[w].pc \notin {"idle", "done", "commit"}}

Done(w, status, error) ==
  worker' = [worker EXCEPT ![w].pc = "done", ![w].status = status,
                           ![w].error = error, ![w].instance = NoInstance]

\* The in-memory instance a worker is about to save: built from validated_data
\* on create, the fetched instance with the supplied attributes set on update.
\* Neither touches storage, so a worker holds its instance in this form from
\* the moment the request is received; its pk (0 on create) is the pk the
\* queries of the serializer exclude.
Candidate(op, user, data, instance) ==
  IF op = "create" THEN create(data, user) ELSE update(instance, data)

\* BookingViewSet.create is entered: the serializer is built from request.data.
ReceiveCreate(w, user, data) ==
  /\ worker[w].pc = "idle"
  /\ nextId + Cardinality(CreatesInFlight) <= MaxId
  /\ worker' = [worker EXCEPT ![w] =
                  [pc |-> "validate", op |-> "create", user |-> user, pk |-> 0,
                   partial |-> FALSE, data |-> data,
                   instance |-> Candidate("create", user, data, NoInstance),
                   status |-> "", error |-> NoError]]
  /\ UNCHANGED <<bookings, nextId, today, request, response, pre, rooms, nextRoomId>>

\* BookingViewSet.update is entered (PUT, or PATCH with partial = TRUE):
\* get_object() fetches the instance, which the worker holds in memory from
\* here on.
ReceiveUpdate(w, user, pk, partial, data) ==
  /\ worker[w].pc = "idle"
  /\ partial \/ Fields \subseteq DOMAIN data
  /\ LET instance == get_object(user, pk, bookings)
         refused == IF instance = NoInstance THEN "404"
                    ELSE IF ~has_object_permission(user, instance) THEN "403"
                    ELSE ""
     IN  worker' = [worker EXCEPT ![w] =
                      [pc |-> IF refused # "" THEN "done" ELSE "validate",
                       op |-> "update", user |-> user, pk |-> pk,
                       partial |-> partial, data |-> data,
                       instance |-> IF refused # "" THEN NoInstance
                                    ELSE Candidate("update", user, data, instance),
                       status |-> refused, error |-> NoError]]
  /\ UNCHANGED <<bookings, nextId, today, request, response, pre, rooms, nextRoomId>>

\* BookingViewSet.destroy is entered: get_object() fetches the instance, of
\* which the delete uses the pk alone.
ReceiveDestroy(w, user, pk) ==
  /\ worker[w].pc = "idle"
  /\ LET instance == get_object(user, pk, bookings)
         refused == IF instance = NoInstance THEN "404"
                    ELSE IF ~has_object_permission(user, instance) THEN "403"
                    ELSE ""
     IN  worker' = [worker EXCEPT ![w] =
                      [pc |-> IF refused # "" THEN "done" ELSE "delete",
                       op |-> "destroy", user |-> user, pk |-> pk,
                       partial |-> FALSE, data |-> EmptyData,
                       instance |-> NoInstance,
                       status |-> refused, error |-> NoError]]
  /\ UNCHANGED <<bookings, nextId, today, request, response, pre, rooms, nextRoomId>>

\* serializer.is_valid(raise_exception=True), first part: BookingSerializer
\* .validate reads the clock and checks the date, then the interval.  With a
\* field missing it makes no query and validation is over.
SerializerValidateNow(w) ==
  /\ worker[w].pc = "validate"
  /\ LET data == worker[w].data
     IN  IF "date" \in DOMAIN data /\ data["date"] < today
         THEN Done(w, "400", PastDate)
         ELSE IF /\ "start_time" \in DOMAIN data
                 /\ "end_time" \in DOMAIN data
                 /\ data["end_time"] <= data["start_time"]
         THEN Done(w, "400", InvalidInterval)
         ELSE IF ~(Fields \subseteq DOMAIN data)
         THEN worker' = [worker EXCEPT ![w].pc = "clean"]
         ELSE worker' = [worker EXCEPT ![w].pc = "validate_room"]
  /\ UNCHANGED <<bookings, nextId, today, request, response, pre, rooms, nextRoomId>>

\* serializer.is_valid, second part: the room query of BookingSerializer
\* .validate, on the table as committed now, outside any transaction.
SerializerValidateRoom(w) ==
  /\ worker[w].pc = "validate_room"
  /\ LET data == worker[w].data
     IN  IF ~_is_room_available(data["room"], data["date"],
                                data["start_time"], data["end_time"],
                                worker[w].instance, bookings)
         THEN Done(w, "400", RoomConflict)
         ELSE worker' = [worker EXCEPT ![w].pc = "validate_user"]
  /\ UNCHANGED <<bookings, nextId, today, request, response, pre, rooms, nextRoomId>>

\* serializer.is_valid, last part: the user query of BookingSerializer
\* .validate, on the table as committed now.
SerializerValidateUser(w) ==
  /\ worker[w].pc = "validate_user"
  /\ LET data == worker[w].data
     IN  IF ~_is_user_available(worker[w].user, data["date"],
                                data["start_time"], data["end_time"],
                                worker[w].instance, bookings)
         THEN Done(w, "400", UserConflict)
         ELSE worker' = [worker EXCEPT ![w].pc = "clean"]
  /\ UNCHANGED <<bookings, nextId, today, request, response, pre, rooms, nextRoomId>>

\* Inside transaction.atomic(): Booking.save calls self.clean(), which reads
\* the clock and checks the date, then the interval.
ModelCleanNow(w) ==
  /\ worker[w].pc = "clean"
  /\ LET self == worker[w].instance
     IN  IF self.date < today
         THEN Done(w, "500", PastDate)
         ELSE IF self.end_time <= self.start_time
         THEN Done(w, "500", InvalidInterval)
         ELSE worker' = [worker EXCEPT ![w].pc = "clean_room"]
  /\ UNCHANGED <<bookings, nextId, today, request, response, pre, rooms, nextRoomId>>

\* Booking.clean, second part: the room query, on the rows committed now.
ModelCleanRoom(w) ==
  /\ worker[w].pc = "clean_room"
  /\ LET self == worker[w].instance
     IN  IF _validate_room_availability(self, bookings) # NoError
         THEN Done(w, "500", _validate_room_availability(self, bookings))
         ELSE worker' = [worker EXCEPT ![w].pc = "clean_user"]
  /\ UNCHANGED <<bookings, nextId, today, request, response, pre, rooms, nextRoomId>>

\* Booking.clean, last part: the user query, on the rows committed now.
ModelCleanUser(w) ==
  /\ worker[w].pc = "clean_user"
  /\ LET self == worker[w].instance
     IN  IF _validate_user_availability(self, bookings) # NoError
         THEN Done(w, "500", _validate_user_availability(self, bookings))
         ELSE worker' = [worker EXCEPT ![w].pc = "save"]
  /\ UNCHANGED <<bookings, nextId, today, request, response, pre, rooms, nextRoomId>>

\* super().save(): the INSERT statement draws the primary key from the
\* sequence (a create), or the UPDATE statement is issued (an update); the
\* transaction is still open and the other workers do not see the row.
ModelSave(w) ==
  /\ worker[w].pc = "save"
  /\ nextId' = IF worker[w].op = "create" THEN nextId + 1 ELSE nextId
  /\ worker' = [worker EXCEPT
         ![w].pc = "commit",
         ![w].pk = IF worker[w].op = "create" THEN nextId ELSE worker[w].pk]
  /\ UNCHANGED <<bookings, today, request, response, pre, rooms, nextRoomId>>

\* The atomic block is left: the transaction commits and the row written
\* becomes visible to the other workers (an UPDATE whose row was deleted
\* meanwhile stores the row again: Model.save inserts when the UPDATE matches
\* nothing).  The response body carries the row's id.
Commit(w) ==
  /\ worker[w].pc = "commit"
  /\ bookings' = save(worker[w].instance, bookings, worker[w].pk)
  /\ worker' = [worker EXCEPT
         ![w].pc = "done",
         ![w].status = IF worker[w].op = "create" THEN "201" ELSE "200",
         ![w].instance = NoInstance]
  /\ UNCHANGED <<nextId, today, request, response, pre, rooms, nextRoomId>>

\* perform_destroy -> instance.delete(): one DELETE statement for the fetched
\* pk, committed at once (no atomic block around it); it succeeds whether or
\* not the row is still there.
ModelDelete(w) ==
  /\ worker[w].pc = "delete"
  /\ bookings' = {b \in bookings : b.id # worker[w].pk}
  /\ Done(w, "204", NoError)
  /\ UNCHANGED <<nextId, today, request, response, pre, rooms, nextRoomId>>

\* The response is sent; the worker takes the next request.
Finish(w) ==
  /\ worker[w].pc = "done"
  /\ worker' = [worker EXCEPT ![w] = NoWorker]
  /\ UNCHANGED <<bookings, nextId, today, request, response, pre, rooms, nextRoomId>>

NextConc ==
  \/ \E w \in Workers, user \in Users, data \in ConcPostData :
       ReceiveCreate(w, user, data)
  \/ \E w \in Workers, user \in Users, pk \in Ids, data \in ConcPutData :
       ReceiveUpdate(w, user, pk, FALSE, data)
  \/ \E w \in Workers, user \in Users, pk \in Ids, data \in ConcPatchData :
       ReceiveUpdate(w, user, pk, TRUE, data)
  \/ \E w \in Workers, user \in Users, pk \in Ids : ReceiveDestroy(w, user, pk)
  \/ \E w \in Workers : SerializerValidateNow(w)
  \/ \E w \in Workers : SerializerValidateRoom(w)
  \/ \E w \in Workers : SerializerValidateUser(w)
  \/ \E w \in Workers : ModelCleanNow(w)
  \/ \E w \in Workers : ModelCleanRoom(w)
  \/ \E w \in Workers : ModelCleanUser(w)
  \/ \E w \in Workers : ModelSave(w)
  \/ \E w \in Workers : Commit(w)
  \/ \E w \in Workers : ModelDelete(w)
  \/ \E w \in Workers : Finish(w)
  \/ Tick

SpecConc == Init /\ [][NextConc]_vars

\* ------------------------------------------------- SpecRooms: the rooms ----
\* The rooms endpoint, with bookings made for the current date in the rooms
\* that exist (room_id is a PrimaryKeyRelatedField over Room.objects.all()).
\* Payloads sent: every field, one field, or none; a PUT carries every field.
RoomPayloads ==
  {d \in AllRoomData : DOMAIN d = RoomFields \/ Cardinality(DOMAIN d) <= 1}

\* Listings asked for: floor and capacity at will; the slot either not at
\* all or as the current date with a well-formed interval.
RoomListParams(now) ==
  {q \in AllRoomParams :
     LET slot == DOMAIN q \cap {"date", "start_time", "end_time"}
     IN  /\ slot \in {{}, {"date", "start_time", "end_time"}}
         /\ "date" \in slot => q["date"] = now
         /\ "end_time" \in slot => q["start_time"] < q["end_time"]}

NextRooms ==
  \/ Idle /\ \E user \in Users, data \in RoomPayloads : RoomCreate(user, data)
  \/ Idle /\ \E user \in Users, pk \in RoomIds, partial \in BOOLEAN,
                 data \in RoomPayloads :
               /\ partial \/ DOMAIN data = RoomFields
               /\ RoomUpdate(user, pk, partial, data)
  \/ Idle /\ \E user \in Users, pk \in RoomIds : RoomDestroy(user, pk)
  \/ Idle /\ \E user \in Users, params \in RoomListParams(today) :
               RoomList(user, params)
  \/ Idle /\ \E user \in Users, pk \in RoomIds : RoomRetrieve(user, pk)
  \/ Idle /\ \E user \in Users, data \in ConcData(today) :
               /\ \E r \in rooms : r.id = data["room"]
               /\ BookingCreate(user, data)
  \/ Return

SpecRooms == Init /\ [][NextRooms]_vars

\* ============================================================== claims ====
\* The overlap test of the specification on two rows or requests:
\* a.start < b.end AND a.end > b.start.
Overlap(s1, e1, s2, e2) == s1 < e2 /\ e1 > s2

Answered(w) == worker[w].pc = "done"

\* Two requests name the same room and date and overlapping intervals.
SameRoomSlot(d1, d2) ==
  /\ d1["room"] = d2["room"]
  /\ d1["date"] = d2["date"]
  /\ Overlap(d1["start_time"], d1["end_time"], d2["start_time"], d2["end_time"])

\* C1: of two answered create requests for the same room, the same date and
\* overlapping intervals, when one succeeded the other did not succeed and
\* was rejected as a room conflict: never two successes.
C1_OneCreatePerRoomSlot ==
  \A w1, w2 \in Workers :
    ( /\ w1 # w2
      /\ Answered(w1) /\ worker[w1].op = "create"
      /\ Answered(w2) /\ worker[w2].op = "create"
      /\ SameRoomSlot(worker[w1].data, worker[w2].data)
      /\ worker[w1].status = "201" )
    => /\ worker[w2].status # "201"
       /\ worker[w2].error = RoomConflict

\* C2: of two answered create requests of the same user for two different
\* rooms on the same date with overlapping intervals, at most one succeeded.
C2_OneCreatePerUserSlot ==
  \A w1, w2 \in Workers :
    ( /\ w1 # w2
      /\ Answered(w1) /\ worker[w1].op = "create"
      /\ Answered(w2) /\ worker[w2].op = "create"
      /\ worker[w1].user = worker[w2].user
      /\ worker[w1].data["room"] # worker[w2].data["room"]
      /\ worker[w1].data["date"] = worker[w2].data["date"]
      /\ Overlap(worker[w1].data["start_time"], worker[w1].data["end_time"],
                 worker[w2].data["start_time"], worker[w2].data["end_time"]) )
    => ~(worker[w1].status = "201" /\ worker[w2].status = "201")

\* C3: no write that conflicts with an update is committed between the
\* update's validation and its persistence (from the end of its validation to
\* its commit, the room is free of other committed bookings for its slot);
\* and of an answered update that moves a booking into a slot of a room and
\* an answered create, or an answered update of another booking, for an
\* overlapping slot of that room on the same date, at most one succeeded.
C3_UpdateValidationHoldsAtWrite ==
  /\ \A w \in Workers :
       (worker[w].op = "update" /\ worker[w].pc \in {"save", "commit"})
       => ~\E b \in bookings :
             /\ b.id # worker[w].pk
             /\ b.room = worker[w].instance.room
             /\ b.date = worker[w].instance.date
             /\ Overlap(b.start_time, b.end_time,
                        worker[w].instance.start_time,
                        worker[w].instance.end_time)
  /\ \A w1, w2 \in Workers :
       ( /\ w1 # w2
         /\ Answered(w1) /\ worker[w1].op = "update"
         /\ Answered(w2) /\ worker[w2].op \in {"create", "update"}
         /\ worker[w1].pk # worker[w2].pk
         /\ Fields \subseteq DOMAIN worker[w1].data
         /\ Fields \subseteq DOMAIN worker[w2].data
         /\ SameRoomSlot(worker[w1].data, worker[w2].data) )
       => ~(/\ worker[w1].status = "200"
            /\ worker[w2].status \in {"200", "201"})

\* ------------------------------------------------ one request at a time ----
\* In a state where a request has been answered, `today` is the date at the
\* handler's last reading of the clock: a date that is not past then was not
\* past at any earlier reading either.
Answering(op) == request.op = op

\* The row a create request asks for, under the id the response reports.
RequestedRow ==
  [id |-> response.id, user |-> request.user, room |-> request.data["room"],
   date |-> request.data["date"], start_time |-> request.data["start_time"],
   end_time |-> request.data["end_time"]]

\* Stored before the request: a booking of this room / of this user on this
\* date whose interval overlaps [s, e), other than the booking `except`.
RoomTaken(bks, room, date, s, e, except) ==
  \E b \in bks : /\ b.id # except
                 /\ b.room = room /\ b.date = date
                 /\ Overlap(b.start_time, b.end_time, s, e)

UserTaken(bks, user, date, s, e, except) ==
  \E b \in bks : /\ b.id # except
                 /\ b.user = user /\ b.date = date
                 /\ Overlap(b.start_time, b.end_time, s, e)

\* C4: no two distinct stored bookings have the same room and the same date
\* with intervals a.start < b.end AND a.end > b.start.
C4_NoRoomDoubleBooking ==
  \A a, b \in bookings :
    (a.id # b.id /\ a.room = b.room /\ a.date = b.date)
    => ~(a.start_time < b.end_time /\ a.end_time > b.start_time)

\* A partial update of the times alone was accepted and left two bookings in
\* one room on one date.
C4_Witness ==
  /\ Answering("update") /\ response.status = "200"
  /\ DOMAIN request.data = {"start_time", "end_time"}
  /\ \E a, b \in bookings :
       a.id = request.pk /\ b.id # a.id /\ a.room = b.room /\ a.date = b.date

\* C5: no two distinct stored bookings have the same user and the same date
\* with overlapping intervals, whatever their rooms.
C5_NoUserDoubleBooking ==
  \A a, b \in bookings :
    (a.id # b.id /\ a.user = b.user /\ a.date = b.date)
    => ~(a.start_time < b.end_time /\ a.end_time > b.start_time)

\* An administrator's update of another user's booking was accepted and that
\* user holds two bookings on the date, in different rooms.
C5_Witness ==
  /\ Answering("update") /\ response.status = "200"
  /\ request.user \in Staff
  /\ \E a, b \in bookings :
       /\ a.id = request.pk /\ a.user \notin Staff
       /\ b.id # a.id /\ b.user = a.user /\ b.date = a.date /\ b.room # a.room

\* C6: Room.is_available(date, start, end) returned true exactly when no
\* stored booking of that room on that date has stored.start < end AND
\* stored.end > start; the answer is the one the bookings of that room on
\* that date alone give.
C6_IsAvailableIffNoOverlap ==
  Answering("is_available") =>
    /\ response.value =
         ~\E b \in bookings :
             /\ b.room = request.pk
             /\ b.date = request.data["date"]
             /\ b.start_time < request.data["end_time"]
             /\ b.end_time > request.data["start_time"]
    /\ \A x \in bookings :
         (x.room # request.pk \/ x.date # request.data["date"])
         => response.value =
              ~\E b \in bookings \ {x} :
                  /\ b.room = request.pk
                  /\ b.date = request.data["date"]
                  /\ b.start_time < request.data["end_time"]
                  /\ b.end_time > request.data["start_time"]

\* The room was reported available although another room has a booking in the
\* queried interval that day and the room itself has one on another date.
C6_Witness ==
  /\ Answering("is_available") /\ response.value = TRUE
  /\ request.data["start_time"] < request.data["end_time"]
  /\ \E b \in bookings :
       /\ b.room # request.pk /\ b.date = request.data["date"]
       /\ Overlap(b.start_time, b.end_time,
                  request.data["start_time"], request.data["end_time"])
  /\ \E b \in bookings :
       /\ b.room = request.pk /\ b.date # request.data["date"]
       /\ Overlap(b.start_time, b.end_time,
                  request.data["start_time"], request.data["end_time"])

\* A stored booking of the requested room and date ends where the requested
\* interval starts, or starts where it ends.
Touches(bks, data) ==
  \E b \in bks :
    /\ b.room = data["room"] /\ b.date = data["date"]
    /\ (b.end_time = data["start_time"] \/ b.start_time = data["end_time"])

\* C7: a create whose interval touches a stored booking of the same room and
\* date at a boundary, and that breaks no rule (date not past, end after
\* start, no overlapping booking of the room or of the user), is accepted and
\* stored.
C7_BoundaryTouchAccepted ==
  ( /\ Answering("create")
    /\ Touches(pre, request.data)
    /\ request.data["date"] >= today
    /\ request.data["start_time"] < request.data["end_time"]
    /\ ~RoomTaken(pre, request.data["room"], request.data["date"],
                  request.data["start_time"], request.data["end_time"], 0)
    /\ ~UserTaken(pre, request.user, request.data["date"],
                  request.data["start_time"], request.data["end_time"], 0) )
  => /\ response.status = "201"
     /\ \A b \in pre : b.id # response.id
     /\ bookings = pre \cup {RequestedRow}

C7_Witness ==
  /\ Answering("create") /\ response.status = "201"
  /\ Touches(pre, request.data)
  /\ RequestedRow \in bookings

\* C8: a create with a valid date and interval that strictly overlaps a stored
\* booking of the same room on the same date is answered 400 with the room
\* conflict under non_field_errors, and no booking is created.
C8_RoomConflictRejected ==
  ( /\ Answering("create")
    /\ request.data["date"] >= today
    /\ request.data["start_time"] < request.data["end_time"]
    /\ RoomTaken(pre, request.data["room"], request.data["date"],
                 request.data["start_time"], request.data["end_time"], 0) )
  => /\ response.status = "400"
     /\ response.error.key = "non_field_errors"
     /\ response.error = RoomConflict
     /\ bookings = pre

C8_Witness ==
  /\ Answering("create") /\ response.status = "400"
  /\ response.error = RoomConflict
  /\ RoomTaken(pre, request.data["room"], request.data["date"],
               request.data["start_time"], request.data["end_time"], 0)
  /\ bookings = pre

\* The case of C9: a create for a free room by a user who holds a stored
\* booking in another room on the same date whose interval overlaps the
\* requested interval [start, end), start < end.
C9_Case ==
  /\ Answering("create")
  /\ request.data["start_time"] < request.data["end_time"]
  /\ ~RoomTaken(pre, request.data["room"], request.data["date"],
                request.data["start_time"], request.data["end_time"], 0)
  /\ \E b \in pre :
       /\ b.user = request.user /\ b.room # request.data["room"]
       /\ b.date = request.data["date"]
       /\ Overlap(b.start_time, b.end_time,
                  request.data["start_time"], request.data["end_time"])

C9_UserConflictAnswer ==
  /\ response.status = "400"
  /\ response.error.key = "non_field_errors"
  /\ response.error = UserConflict
  /\ bookings = pre

\* C9 as claimed: every such create is rejected with the user conflict and
\* creates no booking.
C9_Original == C9_Case => C9_UserConflictAnswer

\* C9 as amended: every such create whose date is not in the past is rejected
\* with the user conflict under non_field_errors and creates no booking.
C9_UserConflictRejected ==
  (C9_Case /\ request.data["date"] >= today) => C9_UserConflictAnswer

C9_Witness ==
  C9_Case /\ request.data["date"] >= today /\ C9_UserConflictAnswer

\* The case of C10: an update of a stored booking X the requester may touch,
\* to a valid date and interval in X's room and on X's date, that overlaps X's
\* previous interval and no other booking of that room or of X's owner.
C10_Target == {b \in pre : b.id = request.pk}

C10_Case(x) ==
  /\ Answering("update")
  /\ x \in C10_Target
  /\ (request.user \in Staff \/ x.user = request.user)
  /\ update(x, request.data).room = x.room
  /\ update(x, request.data).date = x.date
  /\ update(x, request.data).date >= today
  /\ update(x, request.data).start_time < update(x, request.data).end_time
  /\ Overlap(x.start_time, x.end_time,
             update(x, request.data).start_time, update(x, request.data).end_time)
  /\ ~RoomTaken(pre, x.room, x.date, update(x, request.data).start_time,
                update(x, request.data).end_time, x.id)
  /\ ~UserTaken(pre, x.user, x.date, update(x, request.data).start_time,
                update(x, request.data).end_time, x.id)

\* C10: every such update is accepted and stored; X never counts as a room or
\* user conflict against itself.
C10_SelfExclusionAccepted ==
  \A x \in pre :
    C10_Case(x) => /\ response.status = "200"
                   /\ bookings = (pre \ {x})
                                   \cup {update(x, to_internal_value(request.data))}

\* ------------------------------------------- candidates and their rules ----
\* The request writes to x: a create (x is the unsaved NoInstance) or an
\* update of the stored booking x by its owner or an administrator.
WritesTo(x) ==
  \/ Answering("create") /\ x = NoInstance
  \/ /\ Answering("update")
     /\ x \in pre /\ x.id = request.pk
     /\ (request.user \in Staff \/ x.user = request.user)

\* The booking the request asks for: the new booking of the requester, or x
\* with the supplied fields replaced.
Resulting(x) ==
  IF x = NoInstance
  THEN [id |-> 0, user |-> request.user, room |-> request.data["room"],
        date |-> request.data["date"],
        start_time |-> request.data["start_time"],
        end_time |-> request.data["end_time"]]
  ELSE [id |-> x.id, user |-> x.user,
        room |-> IF "room" \in DOMAIN request.data
                 THEN request.data["room"] ELSE x.room,
        date |-> IF "date" \in DOMAIN request.data
                 THEN request.data["date"] ELSE x.date,
        start_time |-> IF "start_time" \in DOMAIN request.data
                       THEN request.data["start_time"] ELSE x.start_time,
        end_time |-> IF "end_time" \in DOMAIN request.data
                     THEN request.data["end_time"] ELSE x.end_time]

\* The four rules of the specification on a candidate c, against the
\* bookings stored before the request, c itself excluded.
BreaksDate(c) == c.date < today
BreaksInterval(c) == c.end_time <= c.start_time
BreaksRoom(c) == RoomTaken(pre, c.room, c.date, c.start_time, c.end_time, c.id)
BreaksUser(c) == UserTaken(pre, c.user, c.date, c.start_time, c.end_time, c.id)

BrokenRules(c) ==
  {r \in {"date", "interval", "room", "user"} :
     \/ r = "date" /\ BreaksDate(c)
     \/ r = "interval" /\ BreaksInterval(c)
     \/ r = "room" /\ BreaksRoom(c)
     \/ r = "user" /\ BreaksUser(c)}

FirstBroken(c) ==
  IF BreaksDate(c) THEN PastDate
  ELSE IF BreaksInterval(c) THEN InvalidInterval
  ELSE IF BreaksRoom(c) THEN RoomConflict
  ELSE IF BreaksUser(c) THEN UserConflict
  ELSE NoError

\* C11: for a create or update whose candidate breaks several rules, the
\* error of the response is that of the first broken rule in the order past
\* date, invalid interval, room conflict, user conflict.
C11_FailFastOrder ==
  \A x \in pre \cup {NoInstance} :
    (WritesTo(x) /\ Cardinality(BrokenRules(Resulting(x))) >= 2)
    => response.error = FirstBroken(Resulting(x))

\* C12: every create or update whose resulting date is before the current
\* date is answered 400 with the past-date error under the key date, and the
\* stored bookings are as before.
C12_PastDateRejected ==
  \A x \in pre \cup {NoInstance} :
    (WritesTo(x) /\ BreaksDate(Resulting(x)))
    => /\ response.status = "400"
       /\ response.error = PastDate
       /\ bookings = pre

\* C13: every stored booking has end_time > start_time, and every create or
\* update (full or partial) whose resulting end_time is at most its
\* start_time is refused and leaves the stored bookings as they were.
C13_EndAfterStart ==
  /\ \A b \in bookings : b.end_time > b.start_time
  /\ \A x \in pre \cup {NoInstance} :
       (WritesTo(x) /\ BreaksInterval(Resulting(x)))
       => /\ response.status \notin {"200", "201"}
          /\ response.error # NoError
          /\ bookings = pre

\* A partial update that supplied one time only, making the interval of a
\* stored booking empty or negative, was refused.
C13_Witness ==
  /\ Answering("update") /\ request.partial
  /\ DOMAIN request.data \in {{"start_time"}, {"end_time"}}
  /\ \E x \in pre : /\ WritesTo(x)
                     /\ x.end_time > x.start_time
                     /\ Resulting(x).end_time <= Resulting(x).start_time
                     /\ x \in bookings
  /\ response.status \notin {"200", "201"}
  /\ bookings = pre

\* C14: every create or update (full or partial) whose candidate breaks a
\* rule ends with a structured validation error: status 400 and an error
\* under a field key; none ends as an unhandled exception (500).
C14_StructuredErrors ==
  \A x \in pre \cup {NoInstance} :
    (WritesTo(x) /\ BrokenRules(Resulting(x)) # {})
    => /\ response.status = "400"
       /\ response.error.key \in {"date", "end_time", "non_field_errors"}

\* C15: an administrator's update of a booking x owned by another user is
\* accepted exactly when its candidate breaks no rule, the user rule being
\* that of x's owner; the administrator's own bookings never refuse it.
C15_UpdateKeyedByOwner ==
  \A x \in pre :
    (WritesTo(x) /\ request.user \in Staff /\ x.user # request.user)
    => (response.status = "200" <=> BrokenRules(Resulting(x)) = {})

\* C16: once a booking for room R, date D, [s, e) is created, R is
\* unavailable on D for every interval overlapping [s, e) and as available as
\* before for every other interval; R stays unavailable for the intervals
\* overlapping a stored booking as long as no request deletes or moves that
\* booking; after the booking is deleted, R is available for [s, e) exactly
\* when no other booking of R on D overlaps it.
C16_AvailabilityFollowsBookings ==
  /\ (Answering("create") /\ response.status = "201") =>
       \A s, e \in Times :
         s < e =>
           is_available(request.data["room"], request.data["date"], s, e, bookings)
             = IF Overlap(s, e, request.data["start_time"], request.data["end_time"])
               THEN FALSE
               ELSE is_available(request.data["room"], request.data["date"],
                                 s, e, pre)
  /\ \A b \in pre \cap bookings :
       \A s, e \in Times :
         (s < e /\ Overlap(s, e, b.start_time, b.end_time))
         => ~is_available(b.room, b.date, s, e, bookings)
  /\ (Answering("destroy") /\ response.status = "204") =>
       \A x \in pre :
         x.id = request.pk =>
           is_available(x.room, x.date, x.start_time, x.end_time, bookings)
             = ~RoomTaken(pre, x.room, x.date, x.start_time, x.end_time, x.id)

\* A booking was deleted while the room keeps another booking that day, and
\* the room is available again for the deleted booking's interval.
C16_Witness ==
  /\ Answering("destroy") /\ response.status = "204"
  /\ \E x \in pre \ bookings :
       /\ x.id = request.pk
       /\ is_available(x.room, x.date, x.start_time, x.end_time, bookings)
       /\ ~is_available(x.room, x.date, x.start_time, x.end_time, pre)
       /\ \E b \in bookings : b.room = x.room /\ b.date = x.date

\* C17: answering the availability query or the room listing changes no
\* stored booking and no stored room, and the answer is the one the same call
\* gives on the state it leaves behind.
C17_QueriesChangeNothing ==
  [][ (request.op = "none" /\ request'.op \in {"is_available", "room_list"})
      => /\ bookings' = bookings
         /\ nextId' = nextId
         /\ rooms' = rooms
         /\ nextRoomId' = nextRoomId
         /\ request'.op = "is_available" =>
              response'.value =
                is_available(request'.pk, request'.data["date"],
                             request'.data["start_time"],
                             request'.data["end_time"], bookings')
         /\ request'.op = "room_list" =>
              response'.rows = room_list(request'.data, rooms', bookings') ]_vars

\* A listing for a slot returned some stored room and left another out.
C17_Witness ==
  /\ Answering("room_list") /\ response.status = "200"
  /\ {"date", "start_time", "end_time"} \subseteq DOMAIN request.data
  /\ response.rows # {}
  /\ rooms \ response.rows # {}
  /\ bookings = pre

\* C18: a stored booking is changed or removed only by a request of its owner
\* or of an administrator; an update or delete of another user's booking by
\* a non-administrator is answered 404 and leaves the stored bookings as
\* they were.
C18_OnlyOwnerOrAdminWrites ==
  /\ \A x \in pre \ bookings : request.user \in Staff \/ x.user = request.user
  /\ (Answering("update") \/ Answering("destroy")) =>
       \A x \in pre :
         (x.id = request.pk /\ request.user \notin Staff /\ x.user # request.user)
         => /\ response.status = "404"
            /\ bookings = pre

\* A non-administrator's request to delete, or to validly change, another
\* user's stored booking was answered 404.
C18_Witness ==
  /\ Answering("update") \/ Answering("destroy")
  /\ request.user \notin Staff
  /\ \E x \in bookings : x.id = request.pk /\ x.user # request.user
  /\ response.status = "404"

\* C19: a non-administrator's listing is exactly the stored bookings they own
\* and is the same whatever the other users have stored; their retrieval of
\* another user's booking is answered 404 with no row; an administrator's
\* listing is every stored booking.
C19_BookingVisibility ==
  /\ Answering("list") =>
       /\ response.status = "200"
       /\ response.rows = IF request.user \in Staff THEN bookings
                          ELSE {b \in bookings : b.user = request.user}
       /\ request.user \notin Staff =>
            \A others \in SUBSET {b \in bookings : b.user # request.user} :
              response.rows = {b \in bookings \ others : b.user = request.user}
  /\ Answering("retrieve") =>
       \A x \in bookings :
         (x.id = request.pk /\ request.user \notin Staff /\ x.user # request.user)
         => response.status = "404" /\ response.rows = {}

\* A non-administrator listed their bookings while another user has one
\* stored: they got their own, and not the other's.
C19_Witness ==
  /\ Answering("list") /\ request.user \notin Staff
  /\ response.rows # {}
  /\ bookings \ response.rows # {}

\* C20: a room create, update or delete by a non-administrator is answered
\* 403 and leaves rooms and bookings as they were; rooms change only on an
\* administrator's request; every user's room listing is answered, and so is
\* every user's retrieval of a stored room.
C20_OnlyAdminsChangeRooms ==
  [][ /\ ( /\ request.op = "none"
           /\ request'.op \in {"room_create", "room_update", "room_destroy"}
           /\ request'.user \notin Staff )
         => /\ response'.status = "403"
            /\ rooms' = rooms
            /\ nextRoomId' = nextRoomId
            /\ bookings' = bookings
      /\ rooms' # rooms => request'.user \in Staff
      /\ (request.op = "none" /\ request'.op = "room_list")
         => response'.status = "200"
      /\ ( /\ request.op = "none" /\ request'.op = "room_retrieve"
           /\ \E r \in rooms : r.id = request'.pk )
         => /\ response'.status = "200"
            /\ response'.rows = {r \in rooms : r.id = request'.pk} ]_vars

\* A non-administrator's well-formed change of a stored room was refused.
C20_Witness ==
  /\ Answering("room_update") /\ request.user \notin Staff
  /\ response.status = "403"
  /\ \E r \in rooms :
       /\ r.id = request.pk
       /\ room_update(r, request.data) # r
       /\ room_is_valid(request.data, r, request.partial, rooms) = {}

\* ----------------------------------------------------- room updates ----
\* The values a room payload supplies are acceptable for the stored room r:
\* a name no other stored room has, a capacity and a floor of at least 1.
SuppliedRoomValuesOk(data, r, rms) ==
  \A f \in DOMAIN data :
    IF f = "name"
    THEN ~\E o \in rms : o.id # r.id /\ o.name = data[f]
    ELSE data[f] >= 1

\* r with the values the payload supplies, every other field as stored.
RoomWith(r, data) ==
  [id |-> r.id,
   name |-> IF "name" \in DOMAIN data THEN data["name"] ELSE r.name,
   capacity |-> IF "capacity" \in DOMAIN data THEN data["capacity"] ELSE r.capacity,
   floor |-> IF "floor" \in DOMAIN data THEN data["floor"] ELSE r.floor]

\* C21: an administrator's partial update of a stored room that supplies
\* acceptable values for some of the fields only is answered 200 and stores
\* the supplied values, the other fields and the other rooms unchanged.
C21_PartialRoomUpdate ==
  [][ \A r \in rooms :
        ( /\ request.op = "none"
          /\ request'.op = "room_update" /\ request'.partial
          /\ request'.user \in Staff
          /\ request'.pk = r.id
          /\ DOMAIN request'.data # {} /\ DOMAIN request'.data # RoomFields
          /\ SuppliedRoomValuesOk(request'.data, r, rooms) )
        => /\ response'.status = "200"
           /\ rooms' = (rooms \ {r}) \cup {RoomWith(r, request'.data)} ]_vars

\* C22 as claimed: no step changes the name of a room that stays stored.
C22_Original ==
  [][ \A r \in rooms : \A q \in rooms' : q.id = r.id => q.name = r.name ]_vars

\* C22 as amended: the name of a stored room changes only by an accepted
\* update of that room by an administrator that supplies the name, and an
\* accepted update that supplies a name stores it; a room keeps its id, and
\* no two stored rooms have the same name.
C22_NameChangesOnlyByAdminUpdate ==
  [][ /\ \A r \in rooms : \A q \in rooms' :
           (q.id = r.id /\ q.name # r.name)
           => /\ request'.op = "room_update" /\ request'.pk = r.id
              /\ request'.user \in Staff
              /\ response'.status = "200"
              /\ "name" \in DOMAIN request'.data
              /\ q.name = request'.data["name"]
      /\ ( /\ request.op = "none" /\ request'.op = "room_update"
           /\ response'.status = "200" /\ "name" \in DOMAIN request'.data )
         => \E q \in rooms' : q.id = request'.pk /\ q.name = request'.data["name"]
      /\ \A a, b \in rooms' : a.name = b.name => a.id = b.id ]_vars

\* An administrator's update gave a room of the initial set another name
\* than the one it was created with.
C22_Witness ==
  /\ Answering("room_update") /\ response.status = "200"
  /\ request.user \in Staff
  /\ "name" \in DOMAIN request.data
  /\ \E q \in rooms : \E r \in InitialRooms :
       q.id = request.pk /\ r.id = q.id /\ q.name # r.name
       /\ q.name = request.data["name"]

\* C23: a room listing with date, start_time and end_time returns exactly
\* the stored rooms on the requested floor (when given), of at least the
\* requested capacity (when given), that have no booking on that date whose
\* interval overlaps the requested one.
C23_ListingIsExactlyTheAvailableRooms ==
  ( /\ Answering("room_list")
    /\ {"date", "start_time", "end_time"} \subseteq DOMAIN request.data )
  => /\ response.status = "200"
     /\ response.rows =
          {r \in rooms :
             /\ "floor" \in DOMAIN request.data => r.floor = request.data["floor"]
             /\ "capacity" \in DOMAIN request.data
                  => r.capacity >= request.data["capacity"]
             /\ ~\E b \in bookings :
                    /\ b.room = r.id /\ b.date = request.data["date"]
                    /\ Overlap(b.start_time, b.end_time,
                               request.data["start_time"],
                               request.data["end_time"])}

\* A listing narrowed by capacity returned a free room whose capacity is the
\* requested one and left out a booked room that also has that capacity.
C23_Witness ==
  /\ Answering("room_list")
  /\ {"date", "start_time", "end_time", "capacity"} \subseteq DOMAIN request.data
  /\ \E r \in response.rows : r.capacity = request.data["capacity"]
  /\ \E r \in rooms \ response.rows :
       /\ r.capacity >= request.data["capacity"]
       /\ \E b \in bookings : b.room = r.id

\* C24: a delete of a stored booking by its owner or an administrator is
\* answered 204 and removes that booking and nothing else, whatever the
\* booking's date; a delete of a booking that is not stored (deleted before)
\* is answered 404 and leaves the stored bookings as they were.
C24_DeleteAlwaysSucceedsOnce ==
  Answering("destroy") =>
    /\ \A x \in pre :
         (x.id = request.pk /\ (request.user \in Staff \/ x.user = request.user))
         => /\ response.status = "204"
            /\ bookings = pre \ {x}
    /\ (~\E x \in pre : x.id = request.pk)
         => /\ response.status = "404"
            /\ bookings = pre

\* A booking whose id was handed out and which is stored no longer was
\* deleted once more, by a user who still holds a booking: 404.
C24_Witness ==
  /\ Answering("destroy") /\ response.status = "404"
  /\ request.pk < nextId
  /\ ~\E x \in bookings : x.id = request.pk
  /\ \E x \in bookings : x.user = request.user
  /\ bookings = pre

\* The same update request sent again, the serializer reading the clock as
\* `now` and Booking.clean as `later`, the stored bookings being those the
\* first application left: it is found, passes both validations and writes
\* the stored bookings back unchanged.
AcceptedAgain(now, later) ==
  LET instance == get_object(request.user, request.pk, bookings)
  IN  /\ instance # NoInstance
      /\ has_object_permission(request.user, instance)
      /\ validate(to_internal_value(request.data), instance, request.user,
                  bookings, now) = NoError
      /\ clean(update(instance, to_internal_value(request.data)), bookings,
               later) = NoError
      /\ save(update(instance, to_internal_value(request.data)), bookings, nextId)
           = bookings

\* C25 as claimed: an accepted update applied a second time with no write
\* in between is accepted again and leaves the same stored bookings,
\* whenever the second application is made.
C25_Original ==
  (Answering("update") /\ response.status = "200")
  => \A now \in today..MaxDay : \A later \in LaterDates(now) :
       AcceptedAgain(now, later)

\* C25 as amended: an accepted update applied a second time, with no write
\* in between and while the current date is not past the date of the
\* updated booking, is accepted again and leaves the same stored bookings.
C25_UpdateIdempotent ==
  (Answering("update") /\ response.status = "200")
  => \A now \in today..MaxDay : \A later \in LaterDates(now) :
       (\A b \in bookings : b.id = request.pk => b.date >= later)
       => AcceptedAgain(now, later)

\* An administrator's full update that moved another user's booking to
\* another room and interval was accepted.
C25_Witness ==
  /\ Answering("update") /\ response.status = "200"
  /\ DOMAIN request.data = Fields
  /\ \E x \in pre : \E y \in bookings :
       /\ x.id = request.pk /\ y.id = x.id
       /\ y.room # x.room /\ y.start_time # x.start_time
       /\ x.user # request.user
  /\ AcceptedAgain(today, today)

\* C26: for every create or update request, BookingSerializer.validate on
\* the payload and Booking.clean on the resulting record give the same
\* verdict: both accept, or both reject with the same error.
C26_ValidationPathsAgree ==
  \A x \in pre \cup {NoInstance} :
    WritesTo(x)
    => validate(to_internal_value(request.data), x, request.user, pre, today)
         = clean(IF x = NoInstance
                 THEN create(to_internal_value(request.data), request.user)
                 ELSE update(x, to_internal_value(request.data)), pre, today)

\* The candidate of a create request as a stored booking would be, and the
\* stored booking b as a candidate would be.
AsStored(c) == [c EXCEPT !.id = MaxId + 1]
AsCandidate(b) == [b EXCEPT !.id = 0]

\* C27: for a create request with start < end and every stored booking b,
\* each conflict check finds the candidate to overlap b exactly when it
\* finds b to overlap the candidate: the model's and the serializer's room
\* and user checks, and Room.is_available.
C27_OverlapSymmetric ==
  (Answering("create") /\ request.data["start_time"] < request.data["end_time"])
  => \A b \in pre :
       LET c == Resulting(NoInstance)
       IN  /\ _validate_room_availability(c, {b})
                = _validate_room_availability(AsCandidate(b), {AsStored(c)})
           /\ _validate_user_availability(c, {b})
                = _validate_user_availability(AsCandidate(b), {AsStored(c)})
           /\ _is_room_available(c.room, c.date, c.start_time, c.end_time,
                                 NoInstance, {b})
                = _is_room_available(b.room, b.date, b.start_time, b.end_time,
                                     NoInstance, {AsStored(c)})
           /\ _is_user_available(c.user, c.date, c.start_time, c.end_time,
                                 NoInstance, {b})
                = _is_user_available(b.user, b.date, b.start_time, b.end_time,
                                     NoInstance, {AsStored(c)})
           /\ is_available(c.room, c.date, c.start_time, c.end_time, {b})
                = is_available(b.room, b.date, b.start_time, b.end_time,
                               {AsStored(c)})

\* A create asked for an interval that starts where a stored booking of the
\* same user on the same date ends: no overlap either way, and it was stored.
C27_Witness ==
  /\ Answering("create") /\ response.status = "201"
  /\ \E b \in pre :
       /\ b.user = request.user /\ b.date = request.data["date"]
       /\ b.end_time = request.data["start_time"]
       /\ _validate_user_availability(Resulting(NoInstance), {b}) = NoError
       /\ _validate_user_availability(AsCandidate(b),
                                      {AsStored(Resulting(NoInstance))}) = NoError

\* C28: a create or update that ends in a validation error, raised by the
\* serializer (400) or by the model inside the transaction (500), leaves the
\* stored bookings exactly as they were before the request.
C28_RejectionChangesNothing ==
  ( /\ Answering("create") \/ Answering("update")
    /\ response.error # NoError )
  => /\ response.status \in {"400", "500"}
     /\ bookings = pre

\* A partial update of the times alone that overlaps another booking of the
\* room was refused by the model and left the bookings as they were.
C28_Witness ==
  /\ Answering("update") /\ response.status = "500"
  /\ response.error = RoomConflict
  /\ DOMAIN request.data = {"start_time", "end_time"}
  /\ \E x \in pre : x.id = request.pk /\ Resulting(x) # x
  /\ bookings = pre

\* C29: for a stored booking x whose date is before the current date: every
\* update that leaves x's date unchanged is refused and changes nothing; an
\* update by x's owner that moves the date to the current date or later and
\* breaks no rule is accepted and stored; a delete by x's owner or an
\* administrator is answered 204 and removes x.
C29_PastDateReevaluated ==
  \A x \in pre :
    (x.id = request.pk /\ x.date < today)
    => /\ (Answering("update") /\ Resulting(x).date = x.date)
            => /\ response.status \notin {"200", "201", "204"}
               /\ bookings = pre
       /\ ( /\ Answering("update") /\ x.user = request.user
            /\ Resulting(x).date >= today
            /\ BrokenRules(Resulting(x)) = {} )
            => /\ response.status = "200"
               /\ bookings = (pre \ {x}) \cup {Resulting(x)}
       /\ ( /\ Answering("destroy")
            /\ (request.user \in Staff \/ x.user = request.user) )
            => /\ response.status = "204"
               /\ bookings = pre \ {x}

\* The owner's partial update of the date alone moved a past-dated booking
\* to the current date.
C29_Witness ==
  /\ Answering("update") /\ response.status = "200"
  /\ DOMAIN request.data = {"date"}
  /\ \E x \in pre : /\ x.id = request.pk /\ x.date < today
                     /\ x.user = request.user
                     /\ Resulting(x).date = today
                     /\ Resulting(x) \in bookings

\* C30: an accepted create stores its booking with the requester as user,
\* whatever user the payload names; and no request changes the user of a
\* booking that stays stored.
C30_OwnerIsCreator ==
  /\ (Answering("create") /\ response.status = "201")
       => /\ \E b \in bookings \ pre :
               b.id = response.id /\ b.user = request.user
          /\ \A b \in bookings \ pre : b.user = request.user
  /\ \A x \in pre : \A y \in bookings : y.id = x.id => y.user = x.user

\* An administrator's full update whose payload names the administrator as
\* user was accepted and changed a booking of another user, which that user
\* still owns.
C30_Witness ==
  /\ Answering("update") /\ response.status = "200"
  /\ request.user \in Staff
  /\ "user" \in DOMAIN request.data
  /\ request.data["user"] = request.user
  /\ \E x \in pre : \E y \in bookings :
       /\ x.id = request.pk /\ y.id = x.id /\ y # x
       /\ x.user # request.user /\ y.user = x.user
====
